---- MODULE Spec2Model ----
(***************************************************************************)
(* Model of the CogmemAi Python SDK client (src/cogmemai/client.py).       *)
(*                                                                         *)
(* The client is a thin HTTP+JSON gateway: the constructor validates the   *)
(* API key and captures the configuration, _request builds one request,    *)
(* hands it to the HTTP session and maps the response to a result or an    *)
(* exception, and every public method is a binding that builds a payload   *)
(* and calls _request through _get / _post / _patch / _delete.             *)
(*                                                                         *)
(* Python values that travel as JSON are modelled as tagged records (J     *)
(* values) so that values of different Python types can be compared.       *)
(* Text is modelled by TLA+ strings.                                       *)
(***************************************************************************)
EXTENDS Integers, Sequences, FiniteSets, TLC

VARIABLES
    pc,        \* "start": no client yet; "idle": client ready; "waiting": a call is blocked in session.request
    client,    \* the CogmemAi object's attributes, or NoClient
    ctor_key,  \* api_key argument of the most recent constructor call
    op,        \* name of the public method of the current / last call
    args,      \* arguments of the public method call in progress
    wire,      \* requests handed to session.request and not answered yet
    trips,     \* number of session.request invocations of the current / last call
    resp,      \* the response object of the last call, or NoResp
    outcome    \* how the last constructor or method call ended

vars == <<pc, client, ctor_key, op, args, wire, trips, resp, outcome>>

(***************************************************************************)
(* Bounds of the model                                                     *)
(***************************************************************************)
MaxId == 2

(***************************************************************************)
(* JSON / Python values                                                    *)
(***************************************************************************)
EmptyDict == [k \in {} |-> 0]

JNull == [t |-> "null", s |-> "", n |-> 0, b |-> FALSE, a |-> <<>>, o |-> EmptyDict]

JBool(b) == [t |-> "bool", s |-> "", n |-> 0, b |-> b, a |-> <<>>, o |-> EmptyDict]

JNum(n) == [t |-> "number", s |-> "", n |-> n, b |-> FALSE, a |-> <<>>, o |-> EmptyDict]

JStr(s) == [t |-> "string", s |-> s, n |-> 0, b |-> FALSE, a |-> <<>>, o |-> EmptyDict]

JArr(a) == [t |-> "array", s |-> "", n |-> 0, b |-> FALSE, a |-> a, o |-> EmptyDict]

JObj(o) == [t |-> "object", s |-> "", n |-> 0, b |-> FALSE, a |-> <<>>, o |-> o]

\* Python truthiness of a decoded JSON value (the operand test of `or` / `if`).
Truthy(j) ==
    CASE j.t = "null"   -> FALSE
      [] j.t = "bool"   -> j.b
      [] j.t = "number" -> j.n # 0
      [] j.t = "string" -> j.s # ""
      [] j.t = "array"  -> Len(j.a) > 0
      [] j.t = "object" -> DOMAIN j.o # {}

\* Python `x or y`.
PyOr(x, y) == IF Truthy(x) THEN x ELSE y

\* dict.get(key): the value, or None when the key is absent.
DictGet(d, key) == IF key \in DOMAIN d THEN d[key] ELSE JNull

\* d[key] = value on a dict.
DictSet(d, key, value) == [k \in DOMAIN d \cup {key} |-> IF k = key THEN value ELSE d[k]]

(***************************************************************************)
(* The HTTP side: what session.request hands back                          *)
(***************************************************************************)
\* Serialisation order of the keys of the JSON objects the service sends.
KeyOrder == <<"error", "message", "memory_id", "stored">>

RECURSIVE Encode(_), EncodeItems(_, _), EncodeFields(_, _, _)

\* JSON text of a value, as the service writes it into the response body.
Encode(j) ==
    CASE j.t = "null"   -> "null"
      [] j.t = "bool"   -> IF j.b THEN "true" ELSE "false"
      [] j.t = "number" -> ToString(j.n)
      [] j.t = "string" -> "\"" \o j.s \o "\""
      [] j.t = "array"  -> "[" \o EncodeItems(j.a, 1) \o "]"
      [] j.t = "object" -> "{" \o EncodeFields(j.o, 1, TRUE) \o "}"

EncodeItems(a, i) ==
    IF i > Len(a) THEN ""
    ELSE (IF i > 1 THEN ", " ELSE "") \o Encode(a[i]) \o EncodeItems(a, i + 1)

EncodeFields(o, i, first) ==
    IF i > Len(KeyOrder) THEN ""
    ELSE IF KeyOrder[i] \notin DOMAIN o THEN EncodeFields(o, i + 1, first)
    ELSE (IF first THEN "" ELSE ", ")
         \o "\"" \o KeyOrder[i] \o "\": " \o Encode(o[KeyOrder[i]])
         \o EncodeFields(o, i + 1, FALSE)

\* Values a service may put in an `error` or `message` field.
FieldValues ==
    { JNull, JBool(FALSE), JNum(0), JNum(7), JStr(""),
      JStr("boom"), JStr("denied"), JArr(<<>>) }

\* Objects with any combination of an `error` and a `message` field.
ErrorObjects ==
    { JObj(o) : o \in UNION { [ks -> FieldValues] : ks \in SUBSET {"error", "message"} } }

\* Decodable JSON bodies: objects, arrays, strings, numbers, booleans, null.
JsonBodies ==
    ErrorObjects
    \cup { JObj([memory_id |-> JNum(1), stored |-> JBool(TRUE)]),
           JObj([memory_id |-> JNum(1), stored |-> JBool(TRUE), message |-> JStr("boom")]),
           JArr(<<>>), JArr(<<JNum(7), JStr("boom")>>),
           JStr(""), JStr("boom"), JNum(0), JNum(7),
           JBool(FALSE), JBool(TRUE), JNull }

\* Response bodies that are not JSON.
MalformedBodies ==
    { "", "<html>502 Bad Gateway</html>", "{\"error\": ", "boom" }

HttpStatuses == {200, 399, 400, 500}

NoData == [none |-> TRUE]

\* A requests.Response as _request sees it: status_code, text, and what
\* json() does (json_ok = FALSE: json() raises ValueError).
Responses ==
    { [status_code |-> st, text |-> Encode(d), json_ok |-> TRUE, data |-> d] :
        st \in HttpStatuses, d \in JsonBodies }
    \cup
    { [status_code |-> st, text |-> m, json_ok |-> FALSE, data |-> NoData] :
        st \in HttpStatuses, m \in MalformedBodies }

(***************************************************************************)
(* Outcomes of a call                                                      *)
(***************************************************************************)
NoStatus == -1

NoOutcome == [kind |-> "none"]

Return(value) == [kind |-> "return", value |-> value]

Raise(exc, message, status_code) ==
    [kind |-> "raise", exc |-> exc, message |-> message, status_code |-> status_code]

\* CogmemAiError(message, status_code)
CogmemAiError(message, status_code) == Raise("CogmemAiError", message, status_code)

\* Variant: the status code is inspected before the body is decoded.
HandleResponseStatusFirst(r) ==
    IF r.status_code >= 400
    THEN IF r.json_ok /\ r.data.t = "object"
         THEN CogmemAiError(
                  PyOr(PyOr(DictGet(r.data.o, "error"), DictGet(r.data.o, "message")),
                       JStr(r.text)),
                  r.status_code)
         ELSE IF r.json_ok
         THEN Raise("AttributeError", JStr("object has no attribute 'get'"), NoStatus)
         ELSE CogmemAiError(JStr("Invalid JSON response: " \o r.text), r.status_code)
    ELSE IF ~r.json_ok THEN Return(JStr(r.text))
    ELSE Return(r.data)

\* Variant: `message` is looked up before `error`.
HandleResponseMessageFirst(r) ==
    IF ~r.json_ok
    THEN CogmemAiError(JStr("Invalid JSON response: " \o r.text), r.status_code)
    ELSE IF r.status_code >= 400
    THEN IF r.data.t # "object"
         THEN Raise("AttributeError", JStr("object has no attribute 'get'"), NoStatus)
         ELSE CogmemAiError(
                  PyOr(PyOr(DictGet(r.data.o, "message"), DictGet(r.data.o, "error")),
                       JStr(r.text)),
                  r.status_code)
    ELSE Return(r.data)

\* Variant: the `message` field is never consulted.
HandleResponseNoMessage(r) ==
    IF ~r.json_ok
    THEN CogmemAiError(JStr("Invalid JSON response: " \o r.text), r.status_code)
    ELSE IF r.status_code >= 400
    THEN IF r.data.t # "object"
         THEN Raise("AttributeError", JStr("object has no attribute 'get'"), NoStatus)
         ELSE CogmemAiError(PyOr(DictGet(r.data.o, "error"), JStr(r.text)), r.status_code)
    ELSE Return(r.data)

\* Variant: the decode failure is reported with the bare response text.
HandleResponseBareText(r) ==
    IF ~r.json_ok
    THEN CogmemAiError(JStr(r.text), r.status_code)
    ELSE IF r.status_code >= 400
    THEN IF r.data.t # "object"
         THEN Raise("AttributeError", JStr("object has no attribute 'get'"), NoStatus)
         ELSE CogmemAiError(
                  PyOr(PyOr(DictGet(r.data.o, "error"), DictGet(r.data.o, "message")),
                       JStr(r.text)),
                  r.status_code)
    ELSE Return(r.data)

\* Variant: a body with a truthy `error` field is an error at any status.
HandleResponseErrorField(r) ==
    IF ~r.json_ok
    THEN CogmemAiError(JStr("Invalid JSON response: " \o r.text), r.status_code)
    ELSE IF r.status_code >= 400
            \/ (r.data.t = "object" /\ Truthy(DictGet(r.data.o, "error")))
    THEN IF r.data.t # "object"
         THEN Raise("AttributeError", JStr("object has no attribute 'get'"), NoStatus)
         ELSE CogmemAiError(
                  PyOr(PyOr(DictGet(r.data.o, "error"), DictGet(r.data.o, "message")),
                       JStr(r.text)),
                  r.status_code)
    ELSE Return(r.data)

\* Response handling of _request: everything after session.request returned.
HandleResponse(r) ==
    IF ~r.json_ok
    THEN CogmemAiError(JStr("Invalid JSON response: " \o r.text), r.status_code)
    ELSE IF r.status_code >= 400
    THEN IF r.data.t # "object"
         THEN Raise("AttributeError", JStr("object has no attribute 'get'"), NoStatus)
         ELSE CogmemAiError(
                  PyOr(PyOr(DictGet(r.data.o, "error"), DictGet(r.data.o, "message")),
                       JStr(r.text)),
                  r.status_code)
    ELSE Return(r.data)

(***************************************************************************)
(* Construction                                                            *)
(***************************************************************************)
DEFAULT_BASE_URL == "https://hifriendbot.com/wp-json/hifriendbot/v1"

NoClient == [none |-> TRUE]

NoResp == [none |-> TRUE]

NoArgs == [none |-> TRUE]

\* str.startswith(prefix)
StartsWith(s, prefix) ==
    Len(s) >= Len(prefix) /\ SubSeq(s, 1, Len(prefix)) = prefix

RECURSIVE RStrip(_, _)

\* str.rstrip(ch) for a single character ch
RStrip(s, ch) ==
    IF Len(s) > 0 /\ SubSeq(s, Len(s), Len(s)) = ch
    THEN RStrip(SubSeq(s, 1, Len(s) - 1), ch)
    ELSE s

\* Variant of the guard that tests a shorter prefix.
InvalidApiKeyShortPrefix(api_key) == api_key = "" \/ ~StartsWith(api_key, "cm")

\* The guard of __init__: `not api_key or not api_key.startswith("cm_")`.
InvalidApiKey(api_key) == api_key = "" \/ ~StartsWith(api_key, "cm_")

\* The headers __init__ attaches to the session.
SessionHeaders(api_key) ==
    DictSet(DictSet(EmptyDict, "Authorization", "Bearer " \o api_key),
            "Content-Type", "application/json")

\* Credentials a caller may pass.
ApiKeys == {"", "c", "cm", "cm_", "cm_k1", "xcm_k1", "CM_k1", "sk_k1", " cm_k1"}

\* base_url arguments: None, empty, with and without trailing slashes.
BaseUrls == {JNull, JStr(""), JStr("https://x/api"), JStr("https://x/api/"), JStr("https://x/api//")}

Timeouts == {30}

\* CogmemAi.__init__
__init__(api_key, base_url, timeout) ==
    /\ pc = "start"
    /\ ctor_key' = JStr(api_key)
    /\ IF InvalidApiKey(api_key)
       THEN /\ outcome' = Raise("ValueError", JStr("API key must start with 'cm_'"), NoStatus)
            /\ UNCHANGED <<pc, client>>
       ELSE /\ client' = [api_key  |-> api_key,
                          base_url |-> RStrip(PyOr(base_url, JStr(DEFAULT_BASE_URL)).s, "/"),
                          timeout  |-> timeout,
                          headers  |-> SessionHeaders(api_key)]
            /\ outcome' = [kind |-> "constructed"]
            /\ pc' = "idle"
    /\ UNCHANGED <<op, args, wire, trips, resp>>

Construct ==
    \E api_key \in ApiKeys, base_url \in BaseUrls, timeout \in Timeouts :
        __init__(api_key, base_url, timeout)

(***************************************************************************)
(* The generic request operation                                           *)
(***************************************************************************)
\* _request up to and including the call of session.request: one request is
\* handed to the session and the caller blocks until it answers or fails.
_request(method, path, kwargs) ==
    /\ pc = "idle"
    /\ LET url == client.base_url \o "/cogmemai/" \o path
           kw  == IF "timeout" \in DOMAIN kwargs
                  THEN kwargs
                  ELSE DictSet(kwargs, "timeout", JNum(client.timeout))
       IN  wire' = Append(wire, [method |-> method, url |-> url, kwargs |-> kw])
    /\ trips' = 1
    /\ pc' = "waiting"
    /\ resp' = NoResp
    /\ outcome' = NoOutcome
    /\ UNCHANGED <<client, ctor_key>>

_get(path, params) == _request("GET", path, DictSet(EmptyDict, "params", params))

_post(path, data) == _request("POST", path, DictSet(EmptyDict, "json", data))

_patch(path, data) == _request("PATCH", path, DictSet(EmptyDict, "json", data))

_delete(path) == _request("DELETE", path, EmptyDict)

\* Variant: a 5xx answer makes the client send the request again.
RespondRetry ==
    \E r \in Responses :
        /\ pc = "waiting"
        /\ IF r.status_code >= 500 /\ trips < 2
           THEN /\ trips' = trips + 1
                /\ UNCHANGED <<pc, wire, args, resp, outcome>>
           ELSE /\ resp' = r
                /\ outcome' = HandleResponse(r)
                /\ pc' = "idle"
                /\ wire' = Tail(wire)
                /\ args' = NoArgs
                /\ UNCHANGED trips
        /\ UNCHANGED <<client, ctor_key, op>>

\* session.request returned a response: the rest of _request.
Respond ==
    \E r \in Responses :
        /\ pc = "waiting"
        /\ resp' = r
        /\ outcome' = HandleResponse(r)
        /\ pc' = "idle"
        /\ wire' = Tail(wire)
        /\ args' = NoArgs
        /\ UNCHANGED <<client, ctor_key, op, trips>>

\* session.request raised (connection error, timeout): _request has no
\* handler for it, the exception leaves the call as it is.
TransportFailure ==
    /\ pc = "waiting"
    /\ resp' = NoResp
    /\ outcome' = Raise("RequestException", JStr("transport failure"), NoStatus)
    /\ pc' = "idle"
    /\ wire' = Tail(wire)
    /\ args' = NoArgs
    /\ UNCHANGED <<client, ctor_key, op, trips>>

(***************************************************************************)
(* Public methods                                                          *)
(***************************************************************************)
\* Text arguments: left at the empty default, or given.
Strs == {"", "a"}

\* Memory / member identifiers.
Ids == 1..MaxId

\* Optional[int] importance arguments: None, or a number (0 included).
Importances == {JNull, JNum(0), JNum(5)}

\* payload[key] = value when cond, else payload unchanged
SetIf(cond, payload, key, value) == IF cond THEN DictSet(payload, key, value) ELSE payload

save_memory ==
    \E content \in Strs, importance \in {5} :
        /\ op' = "save_memory"
        /\ args' = [content |-> JStr(content), importance |-> JNum(importance)]
        /\ _post("store",
                 JObj([content |-> JStr(content), memory_type |-> JStr("context"),
                       category |-> JStr("general"), subject |-> JStr(""),
                       importance |-> JNum(importance), scope |-> JStr("project"),
                       project_id |-> JStr("")]))

recall_memories ==
    \E query \in Strs, memory_type \in Strs :
        /\ op' = "recall_memories"
        /\ args' = [query |-> JStr(query), memory_type |-> JStr(memory_type)]
        /\ _post("recall",
                 JObj(SetIf(memory_type # "",
                            [query |-> JStr(query), limit |-> JNum(10), scope |-> JStr("all")],
                            "memory_type", JStr(memory_type))))

extract_memories ==
    \E user_message \in {"a"}, assistant_response \in Strs, previous_context \in Strs :
        /\ op' = "extract_memories"
        /\ args' = [user_message |-> JStr(user_message),
                     assistant_response |-> JStr(assistant_response),
                     previous_context |-> JStr(previous_context)]
        /\ _post("extract",
                 JObj(SetIf(previous_context # "",
                            SetIf(assistant_response # "",
                                  [user_message |-> JStr(user_message)],
                                  "assistant_response", JStr(assistant_response)),
                            "previous_context", JStr(previous_context))))

\* str(include_global).lower()
BoolLower(b) == IF b THEN "true" ELSE "false"

get_project_context ==
    \E project_id \in Strs, include_global \in BOOLEAN, context \in Strs :
        /\ op' = "get_project_context"
        /\ args' = [project_id |-> JStr(project_id),
                     include_global |-> JBool(include_global),
                     context |-> JStr(context)]
        /\ _get("context",
                JObj(SetIf(context # "",
                           SetIf(project_id # "",
                                 [include_global |-> JStr(BoolLower(include_global))],
                                 "project_id", JStr(project_id)),
                           "context", JStr(context))))

\* Variant: the memory_type filter is always sent.
ListMemoriesParamsAlwaysType(memory_type, category, scope, limit, offset) ==
    SetIf(category # "",
          [limit |-> JNum(limit), offset |-> JNum(offset), scope |-> JStr(scope),
           memory_type |-> JStr(memory_type)],
          "category", JStr(category))

\* The query parameters list_memories builds.
ListMemoriesParams(memory_type, category, scope, limit, offset) ==
    SetIf(category # "",
          SetIf(memory_type # "",
                [limit |-> JNum(limit), offset |-> JNum(offset), scope |-> JStr(scope)],
                "memory_type", JStr(memory_type)),
          "category", JStr(category))

list_memories ==
    \E memory_type \in Strs, category \in Strs, scope \in {"all"},
       limit \in {50}, offset \in {0, 10} :
        /\ op' = "list_memories"
        /\ args' = [memory_type |-> JStr(memory_type),
                     category |-> JStr(category),
                     scope |-> JStr(scope),
                     limit |-> JNum(limit),
                     offset |-> JNum(offset)]
        /\ _get("memories", JObj(ListMemoriesParams(memory_type, category, scope, limit, offset)))

\* Variant: importance is tested for truthiness instead of `is not None`.
UpdateMemoryPayloadTruthy(content, importance, scope) ==
    SetIf(scope # "",
          SetIf(Truthy(importance),
                SetIf(content # "", EmptyDict, "content", JStr(content)),
                "importance", importance),
          "scope", JStr(scope))

\* The payload update_memory builds.
UpdateMemoryPayload(content, importance, scope) ==
    SetIf(scope # "",
          SetIf(importance # JNull,
                SetIf(content # "", EmptyDict, "content", JStr(content)),
                "importance", importance),
          "scope", JStr(scope))

update_memory ==
    \E memory_id \in Ids, content \in Strs, importance \in Importances, scope \in Strs :
        /\ op' = "update_memory"
        /\ args' = [memory_id |-> JNum(memory_id),
                     content |-> JStr(content),
                     importance |-> importance,
                     scope |-> JStr(scope)]
        /\ _patch("memory/" \o ToString(memory_id),
                  JObj(UpdateMemoryPayload(content, importance, scope)))

delete_memory ==
    \E memory_id \in Ids :
        /\ op' = "delete_memory"
        /\ args' = [memory_id |-> JNum(memory_id)]
        /\ _delete("memory/" \o ToString(memory_id))

get_usage ==
    /\ op' = "get_usage"
    /\ args' = EmptyDict
    /\ _get("usage", JNull)

ingest_document ==
    \E text \in {"a"}, document_type \in Strs, project_id \in Strs :
        /\ op' = "ingest_document"
        /\ args' = [text |-> JStr(text),
                     document_type |-> JStr(document_type),
                     project_id |-> JStr(project_id)]
        /\ _post("ingest",
                 JObj(SetIf(project_id # "",
                            SetIf(document_type # "",
                                  [text |-> JStr(text)],
                                  "document_type", JStr(document_type)),
                            "project_id", JStr(project_id))))

save_session_summary ==
    \E summary \in {"a"}, project_id \in Strs :
        /\ op' = "save_session_summary"
        /\ args' = [summary |-> JStr(summary), project_id |-> JStr(project_id)]
        /\ _post("session-summary",
                 JObj(SetIf(project_id # "", [summary |-> JStr(summary)],
                            "project_id", JStr(project_id))))

export_memories ==
    /\ op' = "export_memories"
    /\ args' = EmptyDict
    /\ _get("export", JNull)

import_memories ==
    \E memories \in {<<>>, <<JObj([content |-> JStr("a")])>>} :
        /\ op' = "import_memories"
        /\ args' = [memories |-> JArr(memories)]
        /\ _post("import", JObj([memories |-> JArr(memories)]))

get_memory_versions ==
    \E memory_id \in Ids :
        /\ op' = "get_memory_versions"
        /\ args' = [memory_id |-> JNum(memory_id)]
        /\ _get("memory/" \o ToString(memory_id) \o "/versions", JNull)

get_team_members ==
    \E project_id \in Strs :
        /\ op' = "get_team_members"
        /\ args' = [project_id |-> JStr(project_id)]
        /\ _get("team/members",
                JObj(SetIf(project_id # "", EmptyDict, "project_id", JStr(project_id))))

invite_team_member ==
    \E email \in {"a"}, project_id \in Strs, role \in {"member"} :
        /\ op' = "invite_team_member"
        /\ args' = [email |-> JStr(email), project_id |-> JStr(project_id), role |-> JStr(role)]
        /\ _post("team/invite",
                 JObj([email |-> JStr(email), project_id |-> JStr(project_id),
                       role |-> JStr(role)]))

remove_team_member ==
    \E member_id \in Ids :
        /\ op' = "remove_team_member"
        /\ args' = [member_id |-> JNum(member_id)]
        /\ _delete("team/remove/" \o ToString(member_id))

link_memories ==
    \E memory_id \in Ids, related_memory_id \in Ids, relationship_type \in {"a"} :
        /\ op' = "link_memories"
        /\ args' = [memory_id |-> JNum(memory_id),
                     related_memory_id |-> JNum(related_memory_id),
                     relationship_type |-> JStr(relationship_type)]
        /\ _post("memory/" \o ToString(memory_id) \o "/link",
                 JObj([related_memory_id |-> JNum(related_memory_id),
                       relationship_type |-> JStr(relationship_type)]))

get_memory_links ==
    \E memory_id \in Ids :
        /\ op' = "get_memory_links"
        /\ args' = [memory_id |-> JNum(memory_id)]
        /\ _get("memory/" \o ToString(memory_id) \o "/links", JNull)

get_promotion_candidates ==
    /\ op' = "get_promotion_candidates"
    /\ args' = EmptyDict
    /\ _get("promotion-candidates", JNull)

promote_to_global ==
    \E memory_id \in Ids :
        /\ op' = "promote_to_global"
        /\ args' = [memory_id |-> JNum(memory_id)]
        /\ _post("memory/" \o ToString(memory_id) \o "/promote", JObj(EmptyDict))

PublicMethods ==
    { "save_memory", "recall_memories", "extract_memories", "get_project_context",
      "list_memories", "update_memory", "delete_memory", "get_usage",
      "ingest_document", "save_session_summary", "export_memories",
      "import_memories", "get_memory_versions", "get_team_members",
      "invite_team_member", "remove_team_member", "link_memories",
      "get_memory_links", "get_promotion_candidates", "promote_to_global" }

(***************************************************************************)
(* Specification                                                           *)
(***************************************************************************)
Init ==
    /\ pc = "start"
    /\ client = NoClient
    /\ ctor_key = JNull
    /\ op = ""
    /\ args = NoArgs
    /\ wire = <<>>
    /\ trips = 0
    /\ resp = NoResp
    /\ outcome = NoOutcome

Next ==
    \/ Construct
    \/ save_memory
    \/ recall_memories
    \/ extract_memories
    \/ get_project_context
    \/ list_memories
    \/ update_memory
    \/ delete_memory
    \/ get_usage
    \/ ingest_document
    \/ save_session_summary
    \/ export_memories
    \/ import_memories
    \/ get_memory_versions
    \/ get_team_members
    \/ invite_team_member
    \/ remove_team_member
    \/ link_memories
    \/ get_memory_links
    \/ get_promotion_candidates
    \/ promote_to_global
    \/ Respond
    \/ TransportFailure

Spec == Init /\ [][Next]_vars

(***************************************************************************)
(* Properties                                                              *)
(***************************************************************************)
\* Names the specification uses for the exceptions the code raises:
\* ConfigurationError is the ValueError of __init__, ApiError is CogmemAiError.
ConfigurationError == "ValueError"

ApiError == "CogmemAiError"

\* The last call was answered by response r and has finished.
Answered == pc = "idle" /\ resp # NoResp

\* The answered response is decodable JSON with an HTTP error status.
ErrorStatusJson == Answered /\ resp.json_ok /\ resp.status_code >= 400

\* ... and the decoded body is an object.
ErrorStatusObject == ErrorStatusJson /\ resp.data.t = "object"

\* The last call failed with ApiError carrying the response's status.
FailedWithApiError ==
    /\ outcome.kind = "raise"
    /\ outcome.exc = ApiError
    /\ outcome.status_code = resp.status_code

\* The credential passed to the last constructor call does not conform.
NonConformingKey ==
    /\ ctor_key # JNull
    /\ (ctor_key.s = "" \/ Len(ctor_key.s) < 3 \/ SubSeq(ctor_key.s, 1, 3) # "cm_")

\* C1: a constructor call with a credential that is empty or does not start
\* with "cm_" fails with ConfigurationError; no client object exists and no
\* request has been sent.
C1_InvalidCredentialFailsConstruction ==
    NonConformingKey =>
        /\ outcome.kind = "raise"
        /\ outcome.exc = ConfigurationError
        /\ client = NoClient
        /\ pc = "start"
        /\ wire = <<>>
        /\ trips = 0

C1_Witness ==
    /\ ctor_key = JStr("")
    /\ outcome.kind = "raise"
    /\ client = NoClient

\* C2: a response whose body is not valid JSON makes the call fail with
\* ApiError carrying the response's HTTP status, whatever that status is.
C2_MalformedBodyIsApiError ==
    (Answered /\ ~resp.json_ok) => FailedWithApiError

C2_Witness ==
    /\ Answered
    /\ ~resp.json_ok
    /\ resp.status_code = 200
    /\ outcome.kind = "raise"
    /\ outcome.status_code = 200

\* C3 as stated: with status >= 400 and a JSON object that has an `error`
\* field, the ApiError message is that field's value, for every value.
C3_Original ==
    (ErrorStatusObject /\ "error" \in DOMAIN resp.data.o) =>
        /\ FailedWithApiError
        /\ outcome.message = resp.data.o["error"]

\* C3 amended: with status >= 400 and a JSON object whose `error` field holds
\* a truthy value, the ApiError message is that value, with or without a
\* `message` field; an `error` field holding a falsy value (empty string,
\* null, 0, false, empty container) is passed over as if it were absent.
C3_TruthyErrorFieldIsMessage ==
    (ErrorStatusObject /\ "error" \in DOMAIN resp.data.o) =>
        /\ FailedWithApiError
        /\ Truthy(resp.data.o["error"]) => outcome.message = resp.data.o["error"]
        /\ ~Truthy(resp.data.o["error"]) =>
              outcome.message =
                  IF "message" \in DOMAIN resp.data.o /\ Truthy(resp.data.o["message"])
                  THEN resp.data.o["message"]
                  ELSE JStr(resp.text)

C3_Witness ==
    /\ ErrorStatusObject
    /\ DOMAIN resp.data.o = {"error", "message"}
    /\ resp.data.o["error"] = JStr("boom")
    /\ resp.data.o["message"] = JStr("denied")
    /\ outcome.message = JStr("boom")

\* C4 as stated: with status >= 400 and a JSON object without `error` but
\* with `message`, the ApiError message is the `message` value; the raw text
\* is the message only when the body has neither field.
C4_Original ==
    ErrorStatusObject =>
        /\ ("error" \notin DOMAIN resp.data.o /\ "message" \in DOMAIN resp.data.o)
              => (FailedWithApiError /\ outcome.message = resp.data.o["message"])
        /\ outcome.message = JStr(resp.text)
              => DOMAIN resp.data.o \cap {"error", "message"} = {}

\* C4 amended: with status >= 400 and a JSON object without `error` but with
\* a truthy `message`, the ApiError message is the `message` value; the raw
\* text is the message only when neither field holds a truthy value.
C4_TruthyMessageFieldIsMessage ==
    ErrorStatusObject =>
        /\ ("error" \notin DOMAIN resp.data.o /\ "message" \in DOMAIN resp.data.o
            /\ Truthy(resp.data.o["message"]))
              => (FailedWithApiError /\ outcome.message = resp.data.o["message"])
        /\ outcome.message = JStr(resp.text)
              => \A k \in DOMAIN resp.data.o \cap {"error", "message"} :
                      ~Truthy(resp.data.o[k])

C4_Witness ==
    /\ ErrorStatusObject
    /\ DOMAIN resp.data.o = {"message"}
    /\ resp.data.o["message"] = JStr("denied")
    /\ outcome.message = JStr("denied")

\* C5: whenever the body decodes as JSON and the status is >= 400 the call
\* fails with ApiError carrying that status, for every decodable JSON value.
C5_ErrorStatusIsApiError ==
    ErrorStatusJson => FailedWithApiError

\* C6 as stated: for a body that is not valid JSON the ApiError message is
\* the raw response text itself.
C6_Original ==
    (Answered /\ ~resp.json_ok) =>
        (outcome.kind = "raise" /\ outcome.message = JStr(resp.text))

\* C6 amended: for a body that is not valid JSON the ApiError message is the
\* fixed prefix "Invalid JSON response: " followed by the raw response text.
C6_MalformedBodyMessage ==
    (Answered /\ ~resp.json_ok) =>
        /\ outcome.kind = "raise"
        /\ outcome.message.t = "string"
        /\ Len(outcome.message.s) = 23 + Len(resp.text)
        /\ SubSeq(outcome.message.s, 1, 23) = "Invalid JSON response: "
        /\ SubSeq(outcome.message.s, 24, Len(outcome.message.s)) = resp.text

C6_Witness ==
    /\ Answered
    /\ ~resp.json_ok
    /\ resp.text = "<html>502 Bad Gateway</html>"
    /\ outcome.message = JStr("Invalid JSON response: <html>502 Bad Gateway</html>")

\* C7: when the body decodes as JSON and the status is below 400, the call,
\* whichever public method made it, returns exactly the decoded body and
\* raises nothing, also when the body carries `error` or `message` fields.
C7_SuccessReturnsBody ==
    (Answered /\ resp.json_ok /\ resp.status_code < 400) =>
        /\ op \in PublicMethods
        /\ outcome = Return(resp.data)

C7_Witness ==
    /\ Answered
    /\ op = "delete_memory"
    /\ resp.status_code = 399
    /\ resp.json_ok
    /\ resp.data = JObj([error |-> JStr("boom"), message |-> JStr("denied")])
    /\ outcome.kind = "return"
    /\ outcome.value = resp.data

\* The request a public method has handed to the session.
InFlight == wire[1]

\* C8: update_memory sends one PATCH to memory/{id} whose JSON payload has
\* exactly the keys among content, importance, scope that the caller gave
\* (content and scope non-empty, importance not None, 0 included), each with
\* the caller's value.
C8_UpdateMemorySparsePayload ==
    (pc = "waiting" /\ op = "update_memory") =>
        /\ Len(wire) = 1
        /\ InFlight.method = "PATCH"
        /\ InFlight.url = client.base_url \o "/cogmemai/memory/" \o ToString(args.memory_id.n)
        /\ "json" \in DOMAIN InFlight.kwargs
        /\ "params" \notin DOMAIN InFlight.kwargs
        /\ InFlight.kwargs["json"].t = "object"
        /\ LET payload == InFlight.kwargs["json"].o
           IN  /\ DOMAIN payload =
                      {k \in {"content", "scope"} : args[k] # JStr("")}
                      \cup {k \in {"importance"} : args[k] # JNull}
               /\ \A k \in DOMAIN payload : payload[k] = args[k]

C8_Witness ==
    /\ pc = "waiting"
    /\ op = "update_memory"
    /\ args.content = JStr("")
    /\ args.scope = JStr("")
    /\ args.importance = JNum(0)
    /\ DOMAIN InFlight.kwargs["json"].o = {"importance"}

\* C9: list_memories sends one GET to memories whose query parameters are
\* limit, offset, scope, plus memory_type iff a non-empty memory_type was
\* given, plus category iff a non-empty category was given.
C9_ListMemoriesParams ==
    (pc = "waiting" /\ op = "list_memories") =>
        /\ Len(wire) = 1
        /\ InFlight.method = "GET"
        /\ InFlight.url = client.base_url \o "/cogmemai/memories"
        /\ "params" \in DOMAIN InFlight.kwargs
        /\ "json" \notin DOMAIN InFlight.kwargs
        /\ InFlight.kwargs["params"].t = "object"
        /\ LET params == InFlight.kwargs["params"].o
           IN  /\ DOMAIN params =
                      {"limit", "offset", "scope"}
                      \cup {k \in {"memory_type", "category"} : args[k] # JStr("")}
               /\ \A k \in DOMAIN params : params[k] = args[k]

C9_Witness ==
    /\ pc = "waiting"
    /\ op = "list_memories"
    /\ args.memory_type = JStr("")
    /\ args.category = JStr("")
    /\ DOMAIN InFlight.kwargs["params"].o = {"limit", "offset", "scope"}

\* C10: a call of a public method hands exactly one request to the session
\* and is over as soon as the session answers or fails: nothing is sent
\* again; and no step changes the configuration of a constructed client.
C10_OneRoundTripNoStateChange ==
    [][ /\ (pc = "idle" /\ pc' = "waiting") => (trips' = 1 /\ Len(wire') = 1)
        /\ pc = "waiting" => (pc' = "idle" /\ trips' = trips /\ wire' = <<>>)
        /\ client # NoClient => client' = client ]_vars

C10_Witness ==
    /\ pc = "idle"
    /\ outcome.kind = "raise"
    /\ outcome.exc = "RequestException"
    /\ trips = 1
    /\ wire = <<>>

====
